---- MODULE Spec2Model ----
(***************************************************************************)
(* Model of dobot_teleop/teleop.py (class ArTeleopPlannerReal): the        *)
(* clear-error / enable handshake with its retry timers, the gripper       *)
(* side channel with its background thread, and the sensor-sample          *)
(* callback.                                                               *)
(*                                                                         *)
(* Units: robot positions are whole millimetres; phone positions are       *)
(* hundredths of a sensor unit (position_scale 900.0 per unit is 9 mm per  *)
(* hundredth); phone Euler angles are steps of pi/180 rad (rotation_scale  *)
(* 180/pi per rad is 1 degree per step); times are milliseconds.           *)
(***************************************************************************)
EXTENDS Integers, Sequences, FiniteSets, TLC

VARIABLES
    robot_enabled,            \* self.robot_enabled
    clear_pending,            \* ClearError calls in flight (done callback clear_cb)
    enable_pending,           \* EnableRobot calls in flight with done callback enable_cb
    wake_pending,             \* EnableRobot calls in flight issued by wake_up_robot (no callback)
    clear_timers,             \* timers created by clear_cb, each calling async_clear_error
    enable_timers,            \* timers created by enable_cb, each calling async_enable_robot
    clear_results,            \* results handled by clear_cb so far (history)
    enable_results,           \* results handled by enable_cb so far (history)
    wake_results,             \* results of wake_up_robot's calls so far (history)
    teleop_locked,            \* self.teleop_locked
    current_gripper_val,      \* self.current_gripper_val (1 open, 0 closed)
    thread_pc,                \* position of the _send_gripper_command thread
    thread_action,            \* its argument
    triggers,                 \* number of trigger_gripper calls so far (history)
    initialized,              \* self.initialized
    robot_pose_initialized,   \* self.robot_pose_initialized
    getting_initial_pose_flag,\* self.getting_initial_pose_flag
    initial_robot_pose,       \* self.initial_robot_pose
    initial_robot_euler,      \* self.initial_robot_euler
    initial_phone_pose,       \* self.initial_phone_pose (its position)
    initial_phone_euler,      \* self.initial_phone_euler
    last_sent_coords,         \* self.last_sent_coords
    last_cmd_time,            \* self.last_cmd_time
    pose_pending,             \* GetPose calls in flight (done callback pose_cb)
    servo_sent,               \* ServoP requests dispatched so far (history)
    published,                \* messages published on /teleop/target_pose so far (history)
    servo_epoch,              \* for each ServoP request, the number of thread runs
                              \* that had ended when it was dispatched (history)
    crashed,                  \* an exception left a callback: executor.spin() has ended
    processing,               \* OpenVLAIKPlanner: self.processing
    current_scale_idx,        \* self.current_scale_idx
    scale_pos,                \* self.scale_pos, in tenths
    current_joint_state,      \* self.current_joint_state
    plan_pending,             \* the planner's call in flight: "ik", "goal", "result" or "none"
    images,                   \* images taken up by callback so far (history)
    goals_sent,               \* trajectory goals sent so far (history)
    task_file,                \* record_data: the lines of meta/tasks.jsonl
    task_calls,               \* get_task_id calls so far, each with its result (history)
    ev                        \* the handler or thread step that produced this state

hsvars == <<robot_enabled, clear_pending, enable_pending, wake_pending,
            clear_timers, enable_timers, clear_results, enable_results,
            wake_results>>
gripvars == <<teleop_locked, current_gripper_val, thread_pc, thread_action, triggers>>
basevars == <<initialized, robot_pose_initialized, getting_initial_pose_flag,
              initial_robot_pose, initial_robot_euler, initial_phone_pose,
              initial_phone_euler, pose_pending>>
motionvars == <<last_cmd_time, servo_sent, published, servo_epoch>>
\* the teleoperation node's share of the state
teleopvars == <<hsvars, gripvars, basevars, motionvars, last_sent_coords, crashed>>
planvars == <<processing, current_scale_idx, scale_pos, current_joint_state,
              plan_pending, images, goals_sent>>
taskvars == <<task_file, task_calls>>
\* the state of the other two programs
nodevars == <<planvars, taskvars>>
vars == <<teleopvars, nodevars, ev>>

----------------------------------------------------------------------------
(* Bounds of the model *)

\* non-success results the driver gives to each of ClearError and EnableRobot
MaxFail == 2
\* gripper triggers accepted in one run
MaxTriggers == 1
\* motion commands dispatched in one run of the motion path
MaxCmds == 1
\* motion commands dispatched in one run of the session
MaxSessionCmds == 2
\* ServoP requests dispatched in a run of SpecFilter
MaxFilterCmds == 3
\* images taken up by the planner in one run
MaxImages == 3
\* runs of the recorder on one task file
MaxCalls == 4

\* requests of each handshake service issued in one run
MaxReq == MaxFail + 1

----------------------------------------------------------------------------
(* Program constants *)

Success == 0
\* LIMITS
XMin == -800
XMax == 0
YMin == -500
YMax == 500
ZMin == 155
ZMax == 750
MAX_JUMP_THRESHOLD == 40
MIN_MOVE_THRESHOLD == 2
CMD_INTERVAL == 33
PositionScale == 9
RotationScale == 1
GripperOpen == 1
GripperClosed == 0

\* a value of an attribute that holds None
None == <<>>
\* last_cmd_time is assigned only at the end of ar_pose_callback: __init__ does
\* not create the attribute
Unset == -1

ResCodes == {Success, 1}
Signals == {<<1, 0>>, <<0, 1>>, <<0, 0>>, <<1, 1>>, <<1>>, <<1, 0, 1>>}
PostOutcomes == {"ok", "error"}

Failures(results) == Cardinality({i \in 1..Len(results) : results[i] # Success})
HasSuccess(results) == \E i \in 1..Len(results) : results[i] = Success

\* the message of a step that handles none
NoMsg == [pos |-> <<>>, eul |-> <<>>]
\* the time of a step that reads none
NoTime == -1
\* a step: its kind, the result code or message it handled, the branch it took
\* and, for a sensor sample that reached it, the value read from time.time()
EventAt(k, r, w, m, t) == [kind |-> k, res |-> r, why |-> w, msg |-> m, at |-> t]
EventMsg(k, r, w, m) == EventAt(k, r, w, m, NoTime)
Event(k, r, w) == EventMsg(k, r, w, NoMsg)

----------------------------------------------------------------------------
(* The other two programs as constructed *)

\* self.scale_levels, in tenths
ScaleLevels == <<24, 20, 10>>

\* OpenVLAIKPlanner.__init__
PlannerInit ==
    /\ processing = FALSE
    /\ current_scale_idx = 0
    /\ scale_pos = ScaleLevels[1]
    /\ current_joint_state = None
    /\ plan_pending = "none"
    /\ images = 0
    /\ goals_sent = 0

\* meta/tasks.jsonl before the first recording session: no file
TasksInit ==
    /\ task_file = <<>>
    /\ task_calls = <<>>

----------------------------------------------------------------------------
(* __init__: the state after construction.  wait_for_services has returned  *)
(* and async_clear_error has issued the first ClearError call.              *)

Init ==
    /\ robot_enabled = FALSE
    /\ clear_pending = 1
    /\ enable_pending = 0
    /\ wake_pending = 0
    /\ clear_timers = 0
    /\ enable_timers = 0
    /\ clear_results = <<>>
    /\ enable_results = <<>>
    /\ wake_results = <<>>
    /\ teleop_locked = FALSE
    /\ current_gripper_val = GripperOpen
    /\ thread_pc = "idle"
    /\ thread_action = "none"
    /\ triggers = 0
    /\ initialized = FALSE
    /\ robot_pose_initialized = FALSE
    /\ getting_initial_pose_flag = FALSE
    /\ initial_robot_pose = None
    /\ initial_robot_euler = None
    /\ initial_phone_pose = None
    /\ initial_phone_euler = None
    /\ last_sent_coords = None
    /\ last_cmd_time = Unset
    /\ pose_pending = 0
    /\ servo_sent = <<>>
    /\ published = <<>>
    /\ servo_epoch = <<>>
    /\ crashed = FALSE
    /\ PlannerInit
    /\ TasksInit
    /\ ev = Event("init", Success, "")

----------------------------------------------------------------------------
(* Connection handshake *)

ClearIssued == clear_pending + Len(clear_results)
EnableIssued == enable_pending + Len(enable_results)
WakeIssued == wake_pending + Len(wake_results)

\* the driver's answer to a call: any result code, non-success at most MaxFail
\* times per service
DriverMayAnswer(results, res) == res = Success \/ Failures(results) < MaxFail

\* f.result().res == 0 in clear_cb; the mutant takes every result for a success
ClearOkAlways(res) == TRUE
ClearOk(res) == res = Success

\* f.result().res == 0 in enable_cb; the mutant takes every result for a success
EnableOkAlways(res) == TRUE
EnableOk(res) == res = Success

\* self.create_timer(1.0, ...) with n timers of that callback armed; the mutant
\* creates none
ArmNoTimer(n) == n
ArmTimer(n) == n + 1

\* clear_cb(f): the done callback of a ClearError call
ClearCb(res) ==
    /\ ~crashed
    /\ clear_pending > 0
    /\ DriverMayAnswer(clear_results, res)
    /\ clear_pending' = clear_pending - 1
    /\ clear_results' = Append(clear_results, res)
    /\ IF ClearOk(res)
          THEN \* self.async_enable_robot()
               /\ EnableIssued < MaxReq
               /\ enable_pending' = enable_pending + 1
               /\ UNCHANGED clear_timers
          ELSE \* self.create_timer(1.0, self.async_clear_error)
               /\ clear_timers' = ArmTimer(clear_timers)
               /\ UNCHANGED enable_pending
    /\ ev' = Event("clear_cb", res, "")
    /\ UNCHANGED <<robot_enabled, wake_pending, enable_timers, enable_results,
                   wake_results, gripvars, basevars, motionvars,
                   last_sent_coords, crashed, nodevars>>

\* a timer created by clear_cb fires: async_clear_error().  rclpy timers are
\* periodic and nothing cancels this one, so it stays armed after firing.
ClearTimerFire ==
    /\ ~crashed
    /\ clear_timers > 0
    /\ ClearIssued < MaxReq
    /\ clear_pending' = clear_pending + 1
    /\ ev' = Event("clear_timer", Success, "")
    /\ UNCHANGED <<robot_enabled, enable_pending, wake_pending, clear_timers,
                   enable_timers, clear_results, enable_results, wake_results,
                   gripvars, basevars, motionvars, last_sent_coords, crashed, nodevars>>

\* enable_cb(f): the done callback of an EnableRobot call made by
\* async_enable_robot
EnableCb(res) ==
    /\ ~crashed
    /\ enable_pending > 0
    /\ DriverMayAnswer(enable_results, res)
    /\ enable_pending' = enable_pending - 1
    /\ enable_results' = Append(enable_results, res)
    /\ IF EnableOk(res)
          THEN /\ robot_enabled' = TRUE
               /\ UNCHANGED enable_timers
          ELSE \* self.create_timer(1.0, self.async_enable_robot)
               /\ enable_timers' = ArmTimer(enable_timers)
               /\ UNCHANGED robot_enabled
    /\ ev' = Event("enable_cb", res, "")
    /\ UNCHANGED <<clear_pending, wake_pending, clear_timers, clear_results,
                   wake_results, gripvars, basevars, motionvars,
                   last_sent_coords, crashed, nodevars>>

\* a timer created by enable_cb fires: async_enable_robot(); periodic as above
EnableTimerFire ==
    /\ ~crashed
    /\ enable_timers > 0
    /\ EnableIssued < MaxReq
    /\ enable_pending' = enable_pending + 1
    /\ ev' = Event("enable_timer", Success, "")
    /\ UNCHANGED <<robot_enabled, clear_pending, wake_pending, clear_timers,
                   enable_timers, clear_results, enable_results, wake_results,
                   gripvars, basevars, motionvars, last_sent_coords, crashed, nodevars>>

\* the EnableRobot call made by wake_up_robot completes: call_async was given
\* no done callback, so the result is dropped
WakeDone(res) ==
    /\ ~crashed
    /\ wake_pending > 0
    /\ wake_pending' = wake_pending - 1
    /\ wake_results' = Append(wake_results, res)
    /\ ev' = Event("wake_done", res, "")
    /\ UNCHANGED <<robot_enabled, clear_pending, enable_pending, clear_timers,
                   enable_timers, clear_results, enable_results,
                   gripvars, basevars, motionvars, last_sent_coords, crashed, nodevars>>

----------------------------------------------------------------------------
(* Gripper side channel *)

\* the action volume_callback selects for a message, "none" when it selects
\* none; the mutant looks at one element for each action
SignalActionOneElement(data) ==
    IF Len(data) >= 2
       THEN IF data[1] = 1 THEN "close"
            ELSE IF data[2] = 1 THEN "open"
            ELSE "none"
       ELSE "none"
SignalAction(data) ==
    IF Len(data) >= 2
       THEN IF data[1] = 1 /\ data[2] = 0 THEN "close"
            ELSE IF data[1] = 0 /\ data[2] = 1 THEN "open"
            ELSE "none"
       ELSE "none"

\* the test at the head of volume_callback; the mutant leaves it out
VolumeLockedNever == FALSE
VolumeLocked == teleop_locked

\* trigger_gripper: self.current_gripper_val = 0.0 if action == "close" else 1.0;
\* the mutant leaves the value as it was
GripperValueStale(action) == current_gripper_val
GripperValueFor(action) == IF action = "close" THEN GripperClosed ELSE GripperOpen

\* volume_callback(msg), with trigger_gripper(action) when a pattern matches:
\* lock, record the commanded value, start the thread
VolumeCallbackAs(data, msg) ==
    /\ ~crashed
    /\ IF VolumeLocked \/ SignalAction(data) = "none"
          THEN UNCHANGED gripvars
          ELSE /\ thread_pc = "idle" => triggers < MaxTriggers
               /\ teleop_locked' = TRUE
               /\ current_gripper_val' = GripperValueFor(SignalAction(data))
               /\ thread_action' = SignalAction(data)
               /\ thread_pc' = "pre_sleep"
               /\ triggers' = triggers + 1
    /\ ev' = EventMsg("volume", Success, SignalAction(data), msg)
    /\ UNCHANGED <<hsvars, basevars, motionvars, last_sent_coords, crashed, nodevars>>

\* the same, with no record of the message in ev
VolumeCallback(data) == VolumeCallbackAs(data, NoMsg)

\* _send_gripper_command, try block: time.sleep(0.3) returns
ThreadPreSleep ==
    /\ ~crashed
    /\ thread_pc = "pre_sleep"
    /\ thread_pc' = "post"
    /\ ev' = Event("thread", Success, "pre_sleep")
    /\ UNCHANGED <<hsvars, teleop_locked, current_gripper_val, thread_action,
                   triggers, basevars, motionvars, last_sent_coords, crashed, nodevars>>

\* where the thread continues after requests.post: the finally block, whether
\* the call returned or raised; in the mutant an exception ends the thread
AfterPostNoFinally(outcome) == IF outcome = "ok" THEN "settle" ELSE "dead"
AfterPost(outcome) == "settle"

\* requests.post returns, or raises (refused, timed out after 2.0 s) and the
\* except clause logs the error; both continue in the finally block
ThreadPost(outcome) ==
    /\ ~crashed
    /\ thread_pc = "post"
    /\ thread_pc' = AfterPost(outcome)
    /\ ev' = Event("thread", Success, outcome)
    /\ UNCHANGED <<hsvars, teleop_locked, current_gripper_val, thread_action,
                   triggers, basevars, motionvars, last_sent_coords, crashed, nodevars>>

\* finally: time.sleep(1.0) returns
ThreadSettle ==
    /\ ~crashed
    /\ thread_pc = "settle"
    /\ thread_pc' = "clear"
    /\ ev' = Event("thread", Success, "settle")
    /\ UNCHANGED <<hsvars, teleop_locked, current_gripper_val, thread_action,
                   triggers, basevars, motionvars, last_sent_coords, crashed, nodevars>>

\* the value the thread assigns to last_sent_coords; the mutant leaves the
\* attribute as it is
TargetKept == last_sent_coords
TargetAfterActuation == None

\* finally: self.last_sent_coords = None
ThreadClearTarget ==
    /\ ~crashed
    /\ thread_pc = "clear"
    /\ last_sent_coords' = TargetAfterActuation
    /\ thread_pc' = "wake"
    /\ ev' = Event("thread", Success, "clear")
    /\ UNCHANGED <<hsvars, teleop_locked, current_gripper_val, thread_action,
                   triggers, basevars, motionvars, crashed, nodevars>>

\* EnableRobot calls in flight after wake_up_robot, n before it; the mutant
\* makes no call
WakeNoCall(n) == n
WakeCall(n) == n + 1

\* finally: self.wake_up_robot(): one EnableRobot call, no done callback
ThreadWakeUp ==
    /\ ~crashed
    /\ thread_pc = "wake"
    /\ wake_pending' = WakeCall(wake_pending)
    /\ thread_pc' = "unlock"
    /\ ev' = Event("thread", Success, "wake")
    /\ UNCHANGED <<robot_enabled, clear_pending, enable_pending, clear_timers,
                   enable_timers, clear_results, enable_results, wake_results,
                   teleop_locked, current_gripper_val, thread_action, triggers,
                   basevars, motionvars, last_sent_coords, crashed, nodevars>>

\* finally: self.teleop_locked = False; the thread ends
ThreadUnlock ==
    /\ ~crashed
    /\ thread_pc = "unlock"
    /\ teleop_locked' = FALSE
    /\ thread_pc' = "idle"
    /\ thread_action' = "none"
    /\ ev' = Event("thread", Success, "unlock")
    /\ UNCHANGED <<hsvars, current_gripper_val, triggers, basevars, motionvars,
                   last_sent_coords, crashed, nodevars>>

----------------------------------------------------------------------------
(* Sensor samples *)

\* coordinates of a phone position: one hundredth either side of the origin
PhoneCoords == {-1, 0, 1}
PhoneEulers == {<<0, 0, 0>>, <<1, 2, 3>>}
\* a PoseStamped message: its position and the Euler angles that
\* euler_from_quaternion gives for its orientation
PhonePoses == {[pos |-> <<x, y, z>>, eul |-> e] :
                   x \in PhoneCoords, y \in PhoneCoords, z \in PhoneCoords,
                   e \in PhoneEulers}
\* values of time.time()
SampleTimes == {20, 40}

PyMin(a, b) == IF b < a THEN b ELSE a
PyMax(a, b) == IF b > a THEN b ELSE a

\* max(lo, min(v, hi)); the mutant leaves out the lower limit
ClampUpperOnly(v, lo, hi) == PyMin(v, hi)
Clamp(v, lo, hi) == PyMax(lo, PyMin(v, hi))

\* tx, ty, tz: the target before the limits are applied; the mutant maps each
\* phone axis to the robot axis of the same name
CandidatePosUnpermuted(pos, phone0, robot0) ==
    LET dx == (pos[1] - phone0[1]) * PositionScale
        dy == (pos[2] - phone0[2]) * PositionScale
        dz == (pos[3] - phone0[3]) * PositionScale
    IN  <<robot0[1] - dx, robot0[2] - dy, robot0[3] + dz>>
CandidatePos(pos, phone0, robot0) ==
    LET dx == (pos[1] - phone0[1]) * PositionScale
        dy == (pos[2] - phone0[2]) * PositionScale
        dz == (pos[3] - phone0[3]) * PositionScale
    IN  <<robot0[1] - dz, robot0[2] - dx, robot0[3] + dy>>

\* tx_safe, ty_safe, tz_safe
ClampPos(t) ==
    <<Clamp(t[1], XMin, XMax), Clamp(t[2], YMin, YMax), Clamp(t[3], ZMin, ZMax)>>

\* rx, ry, rz (Python's ph_e[1], ph_e[2], ph_e[0] are eul[2], eul[3], eul[1])
TargetEuler(eul, eul0, robot_eul0) ==
    <<robot_eul0[1] + (eul[2] - eul0[2]) * RotationScale,
      robot_eul0[2] + (eul[3] - eul0[3]) * RotationScale,
      robot_eul0[3] + (eul[1] - eul0[1]) * RotationScale>>

\* dist * dist, for the integer coordinates of the model
DistSq(a, b) ==
    (a[1] - b[1]) * (a[1] - b[1]) + (a[2] - b[2]) * (a[2] - b[2])
        + (a[3] - b[3]) * (a[3] - b[3])

\* the test that makes ar_pose_callback return before sending:
\* last_sent_coords is set and dist > MAX_JUMP_THRESHOLD or dist < MIN_MOVE_THRESHOLD.
\* The mutants: no lower threshold; both comparisons inclusive; a target
\* compared with the origin when last_sent_coords is None.
RejectedJumpOnly(target, last) ==
    /\ last # None
    /\ DistSq(target, last) > MAX_JUMP_THRESHOLD * MAX_JUMP_THRESHOLD
RejectedInclusive(target, last) ==
    /\ last # None
    /\ \/ DistSq(target, last) >= MAX_JUMP_THRESHOLD * MAX_JUMP_THRESHOLD
       \/ DistSq(target, last) <= MIN_MOVE_THRESHOLD * MIN_MOVE_THRESHOLD
RejectedFromOrigin(target, last) ==
    LET from == IF last = None THEN <<0, 0, 0>> ELSE last
    IN  \/ DistSq(target, from) > MAX_JUMP_THRESHOLD * MAX_JUMP_THRESHOLD
        \/ DistSq(target, from) < MIN_MOVE_THRESHOLD * MIN_MOVE_THRESHOLD
Rejected(target, last) ==
    /\ last # None
    /\ \/ DistSq(target, last) > MAX_JUMP_THRESHOLD * MAX_JUMP_THRESHOLD
       \/ DistSq(target, last) < MIN_MOVE_THRESHOLD * MIN_MOVE_THRESHOLD

\* the test of handle_init that suppresses a second GetPose request; the mutant
\* leaves it out
AwaitingPoseNever == FALSE
AwaitingPose == getting_initial_pose_flag

\* the ServoP requests of the message that handle_init records as the phone
\* baseline: none, ar_pose_callback returns after handle_init; the mutant goes
\* on to the motion path, whose target is then the robot baseline
SentByHandleInitFallThrough(phone) == <<initial_robot_pose \o initial_robot_euler>>
SentByHandleInit(phone) == <<>>

\* handle_init(phone_pose), for a message handled at time t
HandleInit(phone, t) ==
    /\ IF ~robot_pose_initialized
          THEN /\ IF ~AwaitingPose
                     THEN /\ getting_initial_pose_flag' = TRUE
                          /\ pose_pending' = pose_pending + 1
                     ELSE UNCHANGED <<getting_initial_pose_flag, pose_pending>>
               /\ UNCHANGED <<initialized, initial_phone_pose, initial_phone_euler,
                              servo_sent>>
          ELSE /\ initial_phone_pose' = phone.pos
               /\ initial_phone_euler' = phone.eul
               /\ initialized' = TRUE
               /\ servo_sent' = servo_sent \o SentByHandleInit(phone)
               /\ UNCHANGED <<getting_initial_pose_flag, pose_pending>>
    /\ ev' = EventAt("ar_pose", Success, "init", phone, t)
    /\ UNCHANGED <<hsvars, gripvars, robot_pose_initialized, initial_robot_pose,
                   initial_robot_euler, last_cmd_time, published, servo_epoch,
                   last_sent_coords, crashed, nodevars>>

\* the runs of _send_gripper_command that have reached their last statement
ActuationsCompleted == IF thread_pc = "idle" THEN triggers ELSE triggers - 1

\* target_msg.data: the pose sent and self.current_gripper_val; the mutant
\* leaves the gripper value out
TargetMsgPoseOnly(pose) == pose
TargetMsg(pose) == pose \o <<current_gripper_val>>

\* last_sent_coords after the return of the distance test: the assignment of
\* line 157 is not reached; the mutant records the rejected target
TargetAfterRejectRecorded(safe) == safe
TargetAfterReject(safe) == last_sent_coords

\* ar_pose_callback from "dx = ..." to its end, for the message phone and the
\* value t of current_time, with at most cap commands dispatched in a run
MotionPathCap(phone, t, cap) ==
    LET safe == ClampPos(CandidatePos(phone.pos, initial_phone_pose, initial_robot_pose))
        rot  == TargetEuler(phone.eul, initial_phone_euler, initial_robot_euler)
    IN  /\ IF Rejected(safe, last_sent_coords)
              THEN /\ ev' = EventMsg("ar_pose", Success, "rejected", phone)
                   /\ last_sent_coords' = TargetAfterReject(safe)
                   /\ UNCHANGED motionvars
              ELSE /\ Len(servo_sent) < cap
                   /\ servo_sent' = Append(servo_sent, safe \o rot)
                   /\ published' = Append(published, TargetMsg(safe \o rot))
                   /\ servo_epoch' = Append(servo_epoch, ActuationsCompleted)
                   /\ last_sent_coords' = safe
                   /\ last_cmd_time' = t
                   /\ ev' = EventAt("ar_pose", Success, "sent", phone, t)
        /\ UNCHANGED <<hsvars, gripvars, basevars, crashed, nodevars>>

MotionPath(phone, t) == MotionPathCap(phone, t, MaxCmds)

\* the first two tests of ar_pose_callback; each mutant leaves its test out
NotReadyNever == FALSE
NotReady == ~robot_enabled
LockedNever == FALSE
Locked == teleop_locked

\* the third test: (current_time - self.last_cmd_time) < self.CMD_INTERVAL; the
\* mutant leaves it out
InsideIntervalNever(t) == FALSE
InsideInterval(t) == t - last_cmd_time < CMD_INTERVAL

\* ar_pose_callback(msg).  self.last_cmd_time is read on the third test and no
\* code assigns it before the end of this callback, so the first message that
\* passes the first two tests raises AttributeError; main() catches only
\* KeyboardInterrupt, so spin() ends and the node is destroyed.
ArPoseCallbackOn(poses, times, cap) ==
    /\ ~crashed
    /\ IF NotReady
          THEN /\ ev' = Event("ar_pose", Success, "not_ready")
               /\ UNCHANGED <<hsvars, gripvars, basevars, motionvars,
                              last_sent_coords, crashed, nodevars>>
       ELSE IF Locked
          THEN /\ ev' = Event("ar_pose", Success, "locked")
               /\ UNCHANGED <<hsvars, gripvars, basevars, motionvars,
                              last_sent_coords, crashed, nodevars>>
       ELSE IF last_cmd_time = Unset
          THEN /\ crashed' = TRUE
               /\ ev' = Event("ar_pose", Success, "raised")
               /\ UNCHANGED <<hsvars, gripvars, basevars, motionvars,
                              last_sent_coords, nodevars>>
       ELSE \E phone \in poses, t \in times :
               IF InsideInterval(t)
                  THEN /\ ev' = EventAt("ar_pose", Success, "interval", phone, t)
                       /\ UNCHANGED <<hsvars, gripvars, basevars, motionvars,
                                      last_sent_coords, crashed, nodevars>>
               ELSE IF ~initialized
                  THEN HandleInit(phone, t)
               ELSE MotionPathCap(phone, t, cap)

ArPoseCallback == ArPoseCallbackOn(PhonePoses, SampleTimes, MaxCmds)

----------------------------------------------------------------------------
(* The robot baseline *)

\* one comma-separated field of robot_return: float() returns val, or raises
Field(v) == [ok |-> TRUE, val |-> v]
BadField == [ok |-> FALSE, val |-> 0]

\* robot_return after strip, the removal of the braces and split(',')
PoseResponses ==
    { <<Field(-400), Field(0), Field(400), Field(180), Field(0), Field(90)>>,
      <<Field(-400), Field(0), Field(400), BadField, Field(0), Field(90)>>,
      <<Field(-390), Field(0), Field(400)>>,
      <<Field(-400), BadField, Field(400), Field(180), Field(0), Field(90)>>,
      <<BadField>> }

\* float(p[i]) for i in first..last raises nothing
Parses(p, first, last) ==
    /\ Len(p) >= last
    /\ \A i \in first..last : p[i].ok

Floats(p, first) == <<p[first].val, p[first + 1].val, p[first + 2].val>>

\* getting_initial_pose_flag after the except clause of pose_cb; the mutant
\* leaves the flag set
FlagKept == getting_initial_pose_flag
FlagAfterParseError == FALSE

\* pose_cb(f): the done callback of a GetPose call.  The dictionary of line 194
\* is assigned once p[0], p[1] and p[2] have been converted, before p[3] is read.
PoseCb(p) ==
    /\ ~crashed
    /\ pose_pending > 0
    /\ pose_pending' = pose_pending - 1
    /\ initial_robot_pose' = IF Parses(p, 1, 3) THEN Floats(p, 1) ELSE initial_robot_pose
    /\ IF Parses(p, 1, 6)
          THEN /\ initial_robot_euler' = Floats(p, 4)
               /\ robot_pose_initialized' = TRUE
               /\ UNCHANGED getting_initial_pose_flag
          ELSE /\ getting_initial_pose_flag' = FlagAfterParseError
               /\ UNCHANGED <<initial_robot_euler, robot_pose_initialized>>
    /\ ev' = Event("pose_cb", Success, IF Parses(p, 1, 6) THEN "ok" ELSE "malformed")
    /\ UNCHANGED <<hsvars, gripvars, initialized, initial_phone_pose,
                   initial_phone_euler, motionvars, last_sent_coords, crashed, nodevars>>

----------------------------------------------------------------------------
(* The program: the event loop's callbacks and the steps of the thread *)

Next ==
    \/ \E res \in ResCodes : ClearCb(res)
    \/ ClearTimerFire
    \/ \E res \in ResCodes : EnableCb(res)
    \/ EnableTimerFire
    \/ \E res \in ResCodes : WakeDone(res)
    \/ \E data \in Signals : VolumeCallback(data)
    \/ ThreadPreSleep
    \/ \E outcome \in PostOutcomes : ThreadPost(outcome)
    \/ ThreadSettle
    \/ ThreadClearTarget
    \/ ThreadWakeUp
    \/ ThreadUnlock
    \/ ArPoseCallback

Spec == Init /\ [][Next]_vars

\* The executor runs every ready callback and every due timer; the driver
\* answers every call; the thread is scheduled, its sleeps return and
\* requests.post returns or raises (timeout=2.0).
Fairness ==
    /\ WF_vars(\E res \in ResCodes : ClearCb(res))
    /\ WF_vars(ClearTimerFire)
    /\ WF_vars(\E res \in ResCodes : EnableCb(res))
    /\ WF_vars(EnableTimerFire)
    /\ WF_vars(ThreadPreSleep)
    /\ WF_vars(\E outcome \in PostOutcomes : ThreadPost(outcome))
    /\ WF_vars(ThreadSettle)
    /\ WF_vars(ThreadClearTarget)
    /\ WF_vars(ThreadWakeUp)
    /\ WF_vars(ThreadUnlock)

FairSpec == Init /\ [][Next]_vars /\ Fairness

----------------------------------------------------------------------------
(* The motion path as a function of its inputs: the baselines, the last     *)
(* target sent, the gripper value and the message, with every attribute it  *)
(* reads holding a value.                                                   *)

RobotBaselines == {<<XMin, YMin, ZMin>>, <<-400, 0, 400>>, <<XMax, YMax, ZMax>>}
PhoneBaselines == {<<0, 0, 0>>, <<1, -1, 0>>}

InitMotion ==
    /\ robot_enabled = TRUE
    /\ clear_pending = 0
    /\ enable_pending = 0
    /\ wake_pending = 0
    /\ clear_timers = 0
    /\ enable_timers = 0
    /\ clear_results = <<Success>>
    /\ enable_results = <<Success>>
    /\ wake_results = <<>>
    /\ teleop_locked = FALSE
    /\ current_gripper_val \in {GripperOpen, GripperClosed}
    /\ thread_pc = "idle"
    /\ thread_action = "none"
    /\ triggers = 0
    /\ initialized = TRUE
    /\ robot_pose_initialized = TRUE
    /\ getting_initial_pose_flag = TRUE
    /\ initial_robot_pose \in RobotBaselines
    /\ initial_robot_euler = <<180, 0, 90>>
    /\ initial_phone_pose \in PhoneBaselines
    /\ initial_phone_euler = <<0, 0, 0>>
    /\ last_sent_coords = None
    /\ last_cmd_time = 0
    /\ pose_pending = 0
    /\ servo_sent = <<>>
    /\ published = <<>>
    /\ servo_epoch = <<>>
    /\ crashed = FALSE
    /\ PlannerInit
    /\ TasksInit
    /\ ev = Event("init", Success, "")

NextMotion == \E phone \in PhonePoses, t \in SampleTimes : MotionPath(phone, t)

SpecMotion == InitMotion /\ [][NextMotion]_vars

----------------------------------------------------------------------------
(* The session: the callbacks and the thread from the point where ClearError *)
(* has succeeded and the first EnableRobot call is in flight, with           *)
(* last_cmd_time holding a timestamp.  The driver answers that call with     *)
(* success (its failures are part of Spec).                                  *)

SessionPoses == {[pos |-> q, eul |-> <<0, 0, 0>>] :
                     q \in {<<0, 0, 0>>, <<0, 0, 1>>, <<0, 1, 0>>}}
SessionTimes == {20, 33, 40, 66}

InitSession ==
    /\ robot_enabled = FALSE
    /\ clear_pending = 0
    /\ enable_pending = 1
    /\ wake_pending = 0
    /\ clear_timers = 0
    /\ enable_timers = 0
    /\ clear_results = <<Success>>
    /\ enable_results = <<>>
    /\ wake_results = <<>>
    /\ teleop_locked = FALSE
    /\ current_gripper_val = GripperOpen
    /\ thread_pc = "idle"
    /\ thread_action = "none"
    /\ triggers = 0
    /\ initialized = FALSE
    /\ robot_pose_initialized = FALSE
    /\ getting_initial_pose_flag = FALSE
    /\ initial_robot_pose = None
    /\ initial_robot_euler = None
    /\ initial_phone_pose = None
    /\ initial_phone_euler = None
    /\ last_sent_coords = None
    /\ last_cmd_time = 0
    /\ pose_pending = 0
    /\ servo_sent = <<>>
    /\ published = <<>>
    /\ servo_epoch = <<>>
    /\ crashed = FALSE
    /\ PlannerInit
    /\ TasksInit
    /\ ev = Event("init", Success, "")

NextSession ==
    \/ EnableCb(Success)
    \/ \E res \in ResCodes : WakeDone(res)
    \/ \E data \in Signals : VolumeCallback(data)
    \/ ThreadPreSleep
    \/ \E outcome \in PostOutcomes : ThreadPost(outcome)
    \/ ThreadSettle
    \/ ThreadClearTarget
    \/ ThreadWakeUp
    \/ ThreadUnlock
    \/ \E p \in PoseResponses : PoseCb(p)
    \/ ArPoseCallbackOn(SessionPoses, SessionTimes, MaxSessionCmds)

SpecSession == InitSession /\ [][NextSession]_vars

----------------------------------------------------------------------------
(* The distance test of the motion path: the same path as above, started    *)
(* from robot baselines and last targets for which the clamped targets of   *)
(* the messages lie 1, 2, 5, 9, 40, 50 and 54 mm apart.                    *)

\* a baseline 40 mm, 1 mm and 2 mm inside three faces of LIMITS, and one
\* outside LIMITS on x (the arm may stand anywhere when GetPose is answered)
CornerBaseline == <<XMax - 40, YMin + 1, ZMin + 2>>
OutsideBaseline == <<100, 0, 300>>
FilterBaselines == {CornerBaseline, OutsideBaseline}

\* last_sent_coords when the run starts: None, or a target 5 mm or 50 mm from
\* CornerBaseline
FilterLastTargets ==
    {None, <<XMax - 45, YMin + 1, ZMin + 2>>, <<XMax - 90, YMin + 1, ZMin + 2>>}

FilterPoses == {[pos |-> q, eul |-> <<0, 0, 0>>] :
                    q \in {<<0, 0, 0>>, <<1, 0, 0>>, <<0, -1, 0>>, <<0, 0, 1>>,
                           <<0, 0, -5>>, <<0, 6, 0>>}}

InitFilter ==
    /\ robot_enabled = TRUE
    /\ clear_pending = 0
    /\ enable_pending = 0
    /\ wake_pending = 0
    /\ clear_timers = 0
    /\ enable_timers = 0
    /\ clear_results = <<Success>>
    /\ enable_results = <<Success>>
    /\ wake_results = <<>>
    /\ teleop_locked = FALSE
    /\ current_gripper_val \in {GripperOpen, GripperClosed}
    /\ thread_pc = "idle"
    /\ thread_action = "none"
    /\ triggers = 0
    /\ initialized = TRUE
    /\ robot_pose_initialized = TRUE
    /\ getting_initial_pose_flag = TRUE
    /\ initial_robot_pose \in FilterBaselines
    /\ initial_robot_euler = <<180, 0, 90>>
    /\ initial_phone_pose = <<0, 0, 0>>
    /\ initial_phone_euler = <<0, 0, 0>>
    /\ last_sent_coords \in FilterLastTargets
    /\ last_cmd_time = 0
    /\ pose_pending = 0
    /\ servo_sent = <<>>
    /\ published = <<>>
    /\ servo_epoch = <<>>
    /\ crashed = FALSE
    /\ PlannerInit
    /\ TasksInit
    /\ ev = Event("init", Success, "")

NextFilter ==
    \E phone \in FilterPoses, t \in SampleTimes : MotionPathCap(phone, t, MaxFilterCmds)

SpecFilter == InitFilter /\ [][NextFilter]_vars

----------------------------------------------------------------------------
(* The gripper side channel alone: the program as constructed, with the      *)
(* messages of /bros/volume, the thread and the answers to wake_up_robot,    *)
(* and each message recorded in the step that handles it.                    *)

NextGripper ==
    \/ \E data \in Signals : VolumeCallbackAs(data, data)
    \/ ThreadPreSleep
    \/ \E outcome \in PostOutcomes : ThreadPost(outcome)
    \/ ThreadSettle
    \/ ThreadClearTarget
    \/ ThreadWakeUp
    \/ ThreadUnlock
    \/ \E res \in ResCodes : WakeDone(res)

SpecGripper == Init /\ [][NextGripper]_vars

----------------------------------------------------------------------------
(* The multi-scaling planner: OpenVLAIKPlanner of openvla_multiscaling_ik.py *)

\* what the try block of callback meets before solve_ik_and_send_goal: an
\* exception (cv_bridge, requests.post, response.json), no pose from tf, or
\* a target pose
PredictOutcomes == {"predict_error", "no_pose", "target"}
\* the result of the GetPositionIK call: error_code.val # 1, a solution, or a
\* solution that lacks one of joint_names (name.index raises ValueError)
IkOutcomes == {"ik_failed", "solution", "solution_without_joint"}

\* current_scale_idx after an IK failure
ScaleIdxDown(idx) == IF idx < Len(ScaleLevels) - 1 THEN idx + 1 ELSE idx

\* self.processing after goal_response_callback has seen a rejected goal; the
\* mutant returns without resetting it
ProcessingKept == processing
ProcessingAfterReject == FALSE

\* callback(msg), with solve_ik_and_send_goal when a target pose was computed;
\* ik_up is what ik_client.wait_for_service returns
Callback(outcome, ik_up) ==
    /\ IF processing
          THEN /\ ev' = Event("image", Success, "busy")
               /\ UNCHANGED planvars
          ELSE /\ images < MaxImages
               /\ images' = images + 1
               /\ IF outcome = "target" /\ ik_up /\ current_joint_state # None
                     THEN /\ processing' = TRUE
                          /\ plan_pending' = "ik"
                          /\ ev' = Event("image", Success, "ik_called")
                     ELSE /\ processing' = FALSE
                          /\ plan_pending' = "none"
                          /\ ev' = Event("image", Success,
                                         IF outcome # "target" THEN outcome
                                         ELSE IF ~ik_up THEN "ik_unavailable"
                                         ELSE "no_joint_state")
               /\ UNCHANGED <<current_scale_idx, scale_pos, current_joint_state,
                              goals_sent>>
    /\ UNCHANGED <<teleopvars, taskvars>>

\* joint_state_callback(msg)
JointStateCallback ==
    /\ current_joint_state' = <<"joint_state">>
    /\ ev' = Event("joint_state", Success, "")
    /\ UNCHANGED <<processing, current_scale_idx, scale_pos, plan_pending, images,
                   goals_sent, teleopvars, taskvars>>

\* ik_response_callback(future), with send_trajectory_goal when a solution was
\* found; server_up is what traj_client.wait_for_server returns.  The scale is
\* reset after send_trajectory_goal has returned, whether or not it sent.
IkResponseCallback(outcome, server_up) ==
    /\ plan_pending = "ik"
    /\ IF outcome = "ik_failed"
          THEN /\ current_scale_idx' = ScaleIdxDown(current_scale_idx)
               /\ scale_pos' = IF current_scale_idx < Len(ScaleLevels) - 1
                                  THEN ScaleLevels[ScaleIdxDown(current_scale_idx) + 1]
                                  ELSE scale_pos
               /\ processing' = FALSE
               /\ plan_pending' = "none"
               /\ UNCHANGED goals_sent
               /\ ev' = Event("ik_response", Success, "ik_failed")
       ELSE IF outcome = "solution_without_joint"
          THEN /\ processing' = FALSE
               /\ plan_pending' = "none"
               /\ UNCHANGED <<current_scale_idx, scale_pos, goals_sent>>
               /\ ev' = Event("ik_response", Success, "raised")
       ELSE /\ IF server_up
                  THEN /\ goals_sent' = goals_sent + 1
                       /\ plan_pending' = "goal"
                       /\ UNCHANGED processing
                       /\ ev' = Event("ik_response", Success, "goal_sent")
                  ELSE /\ processing' = FALSE
                       /\ plan_pending' = "none"
                       /\ UNCHANGED goals_sent
                       /\ ev' = Event("ik_response", Success, "server_unavailable")
            /\ current_scale_idx' = 0
            /\ scale_pos' = ScaleLevels[1]
    /\ UNCHANGED <<current_joint_state, images, teleopvars, taskvars>>

\* goal_response_callback(future)
GoalResponseCallback(accepted) ==
    /\ plan_pending = "goal"
    /\ IF accepted
          THEN /\ plan_pending' = "result"
               /\ UNCHANGED processing
               /\ ev' = Event("goal_response", Success, "accepted")
          ELSE /\ processing' = ProcessingAfterReject
               /\ plan_pending' = "none"
               /\ ev' = Event("goal_response", Success, "rejected")
    /\ UNCHANGED <<current_scale_idx, scale_pos, current_joint_state, images,
                   goals_sent, teleopvars, taskvars>>

\* result_callback(future), for the error_code of the trajectory result
ResultCallback(error_code) ==
    /\ plan_pending = "result"
    /\ processing' = FALSE
    /\ plan_pending' = "none"
    /\ ev' = Event("result", error_code, "")
    /\ UNCHANGED <<current_scale_idx, scale_pos, current_joint_state, images,
                   goals_sent, teleopvars, taskvars>>

NextPlanner ==
    \/ \E outcome \in PredictOutcomes, ik_up \in BOOLEAN : Callback(outcome, ik_up)
    \/ JointStateCallback
    \/ \E outcome \in IkOutcomes, server_up \in BOOLEAN :
           IkResponseCallback(outcome, server_up)
    \/ \E accepted \in BOOLEAN : GoalResponseCallback(accepted)
    \/ \E error_code \in ResCodes : ResultCallback(error_code)

SpecPlanner == Init /\ [][NextPlanner]_vars

\* the executor runs every ready callback; the IK service and the trajectory
\* action server answer every call they have taken
FairnessPlanner ==
    /\ WF_vars(\E outcome \in IkOutcomes, server_up \in BOOLEAN :
                   IkResponseCallback(outcome, server_up))
    /\ WF_vars(\E accepted \in BOOLEAN : GoalResponseCallback(accepted))
    /\ WF_vars(\E error_code \in ResCodes : ResultCallback(error_code))

FairPlanner == SpecPlanner /\ FairnessPlanner

----------------------------------------------------------------------------
(* The recorder's task file: get_task_id of record_data.py *)

\* what the operator may type at the prompt; "pick up object" is the default
TaskDescs == {"valid", "pick up object", "place object"}

TaskLine(idx, desc) == [task_index |-> idx, task |-> desc]

MaxOf(S) == CHOOSE m \in S : \A x \in S : x <= m

\* the dict built from the file: its keys, and for a key the task_index of the
\* last line that names it
TaskKeys(file) == {file[i].task : i \in DOMAIN file}
TaskValue(file, desc) ==
    file[MaxOf({i \in DOMAIN file : file[i].task = desc})].task_index
TaskValues(file) == {TaskValue(file, d) : d \in TaskKeys(file)}

NewId(file) == IF TaskKeys(file) # {} THEN MaxOf(TaskValues(file)) + 1 ELSE 0

\* the file after get_task_id(desc) has appended its lines
TaskFileAfter(file, desc) ==
    IF desc \in TaskKeys(file) THEN file
    ELSE IF "valid" \notin TaskKeys(file)
         THEN file \o <<TaskLine(NewId(file), desc), TaskLine(NewId(file) + 1, "valid")>>
         ELSE Append(file, TaskLine(NewId(file), desc))

TaskIdOf(file, desc) ==
    IF desc \in TaskKeys(file) THEN TaskValue(file, desc) ELSE NewId(file)

\* get_task_id(task_desc), as main calls it once per run of the recorder
GetTaskId(desc) ==
    /\ Len(task_calls) < MaxCalls
    /\ task_file' = TaskFileAfter(task_file, desc)
    /\ task_calls' = Append(task_calls, [task |-> desc, idx |-> TaskIdOf(task_file, desc)])
    /\ ev' = EventMsg("get_task_id", Success, "", desc)
    /\ UNCHANGED <<teleopvars, planvars>>

NextTasks == \E desc \in TaskDescs : GetTaskId(desc)

SpecTasks == Init /\ [][NextTasks]_vars

----------------------------------------------------------------------------
(* Properties *)

InEnvelope(p) ==
    /\ XMin <= p[1] /\ p[1] <= XMax
    /\ YMin <= p[2] /\ p[2] <= YMax
    /\ ZMin <= p[3] /\ p[3] <= ZMax

Last(q) == q[Len(q)]

\* the candidate position, before the limits, of the message of the last step
EvCandidate == CandidatePos(ev.msg.pos, initial_phone_pose, initial_robot_pose)

\* C1: while teleop_locked holds (GripperState Actuating), no step of the event
\* loop or of the thread dispatches a ServoP request or publishes a target, and
\* a sensor sample handled then goes no further than the lock test: it changes
\* neither the baselines nor the motion state and raises nothing.
C1_NoMotionWhileActuating ==
    [][teleop_locked =>
          /\ servo_sent' = servo_sent
          /\ published' = published
          /\ (ev'.kind = "ar_pose" =>
                 UNCHANGED <<basevars, motionvars, last_sent_coords, crashed>>)]_vars

C1_Witness ==
    /\ ev.kind = "ar_pose"
    /\ teleop_locked
    /\ robot_enabled
    /\ thread_pc # "idle"

\* C2: a sensor sample handled while robot_enabled is false is not accepted: it
\* issues no GetPose request, captures no baseline, dispatches and publishes
\* nothing, raises nothing and leaves every attribute as it was.
C2_NoSampleBeforeReady ==
    [][(~robot_enabled /\ ev'.kind = "ar_pose") =>
          UNCHANGED <<hsvars, gripvars, basevars, motionvars, last_sent_coords,
                      crashed>>]_vars

C2_Witness ==
    /\ ev.kind = "ar_pose"
    /\ ~robot_enabled
    /\ ~teleop_locked
    /\ clear_results # <<>>

\* C3: every ServoP request dispatched and every target published has x, y and
\* z inside LIMITS (bounds included), and when the candidate position of the
\* message is inside LIMITS already, the position dispatched and published is
\* that candidate.
C3_DispatchedInsideEnvelope ==
    [][Len(servo_sent') > Len(servo_sent) =>
          /\ \A i \in 1..Len(servo_sent') : InEnvelope(servo_sent'[i])
          /\ \A i \in 1..Len(published') : InEnvelope(published'[i])
          /\ (InEnvelope(EvCandidate') =>
                 /\ SubSeq(Last(servo_sent'), 1, 3) = EvCandidate'
                 /\ SubSeq(Last(published'), 1, 3) = EvCandidate')]_vars

\* a command has been dispatched whose candidate lay outside LIMITS
C3_Witness ==
    /\ ev.kind = "ar_pose"
    /\ ev.why = "sent"
    /\ Len(servo_sent) > 0
    /\ ~InEnvelope(EvCandidate)
    /\ InEnvelope(Last(servo_sent))

\* C4: no callback of the event loop ends in an unhandled error.
C4_NoUnhandledError == ~crashed

\* C5: with the connection Ready, the gripper Idle, the session uninitialized
\* and no GetPose request outstanding, a sensor sample issues exactly one
\* GetPose request and returns without dispatching a motion command.
C5_UninitializedSampleRequestsBaseline ==
    [][(/\ robot_enabled
        /\ ~teleop_locked
        /\ ~initialized
        /\ ~robot_pose_initialized
        /\ ~getting_initial_pose_flag
        /\ pose_pending = 0
        /\ ev'.kind = "ar_pose") =>
          /\ pose_pending' = 1
          /\ getting_initial_pose_flag'
          /\ ~crashed'
          /\ servo_sent' = servo_sent
          /\ published' = published]_vars

\* C6: in the startup handshake (no gripper actuation yet), no EnableRobot
\* request is issued until a ClearError result is a success, so after two
\* failed results none is issued before the third returns success; and
\* robot_enabled holds exactly when a result handled by enable_cb was a
\* success, so after one failed enable result it becomes true when the second
\* returns success.
C6_HandshakeOrder ==
    /\ (triggers = 0 /\ ~HasSuccess(clear_results)) => EnableIssued + WakeIssued = 0
    /\ robot_enabled <=> HasSuccess(enable_results)

C6_Witness ==
    /\ triggers = 0
    /\ clear_results = <<1, 1, Success>>
    /\ enable_results = <<1, Success>>
    /\ robot_enabled

\* C7: each failed result schedules exactly one retry, so at no time have more
\* ClearError requests been issued than failed ClearError results plus one, nor
\* more handshake EnableRobot requests than failed enable results plus
\* successful ClearError results.
C7_OneRetryPerFailure ==
    /\ ClearIssued <= Failures(clear_results) + 1
    /\ EnableIssued <= Failures(enable_results)
                          + (Len(clear_results) - Failures(clear_results))

\* C8: when the driver answers with non-success results only finitely often
\* (at most MaxFail times per service here), then under fair scheduling of the
\* callbacks and the retry timers robot_enabled eventually becomes true.
C8_EventuallyReady == <>robot_enabled

C8_Witness ==
    /\ robot_enabled
    /\ Failures(clear_results) > 0
    /\ Failures(enable_results) > 0

\* C9: robot_enabled changes only in a step of enable_cb whose result is the
\* success code, and then to true; a non-success result of ClearError or of
\* EnableRobot leaves robot_enabled as it was and arms one more retry timer;
\* no step disarms a retry timer.
C9_ReadyOnlyOnEnableSuccess ==
    [][/\ (robot_enabled' # robot_enabled =>
              robot_enabled' /\ ev'.kind = "enable_cb" /\ ev'.res = Success)
       /\ ((ev'.kind = "clear_cb" /\ ev'.res # Success) =>
              robot_enabled' = robot_enabled /\ clear_timers' = clear_timers + 1)
       /\ ((ev'.kind = "enable_cb" /\ ev'.res # Success) =>
              robot_enabled' = robot_enabled /\ enable_timers' = enable_timers + 1)
       /\ clear_timers' >= clear_timers
       /\ enable_timers' >= enable_timers]_vars

C9_Witness ==
    /\ ev.kind = "enable_cb"
    /\ ev.res # Success
    /\ ~robot_enabled
    /\ enable_timers > 0
    /\ Failures(clear_results) > 0

\* C10: a non-success result of the EnableRobot request issued after a gripper
\* actuation is followed by a retry, as in the handshake: the step that
\* receives it arms an enable retry timer.
C10_WakeEnableRetried ==
    [][(ev'.kind = "wake_done" /\ ev'.res # Success) =>
          enable_timers' = enable_timers + 1]_vars

\* the message of the last step was read at a time inside the minimum
\* command interval
EvInsideInterval == ev.at # NoTime /\ ev.at - last_cmd_time < CMD_INTERVAL

\* C11: a gripper signal handled while teleop_locked holds starts nothing and
\* changes nothing (GripperValue and GripperState included); a thread starts
\* only in the step that handles an accepted signal, with the gripper idle and
\* no thread running, so no signal is replayed later; and the lock is held
\* exactly while a thread is running: at most one actuation is in progress.
C11_SignalRejectedWhileActuating ==
    [][/\ (teleop_locked /\ ev'.kind = "volume") =>
              UNCHANGED <<hsvars, gripvars, basevars, motionvars,
                          last_sent_coords, crashed>>
       /\ (triggers' # triggers \/ (thread_pc = "idle" /\ thread_pc' # "idle")) =>
              /\ ev'.kind = "volume"
              /\ ~teleop_locked
              /\ thread_pc = "idle"
              /\ triggers' = triggers + 1
       /\ teleop_locked' <=> thread_pc' # "idle"]_vars

\* a matching signal has been handled while the thread was past its first step
C11_Witness ==
    /\ ev.kind = "volume"
    /\ ev.why \in {"close", "open"}
    /\ teleop_locked
    /\ thread_pc \in {"post", "settle", "clear", "wake", "unlock"}

\* C12: in every step that takes teleop_locked from true to false,
\* last_sent_coords is None afterwards, and last_sent_coords leaves None only
\* in a step that dispatches a motion command.
C12_TargetEmptyAfterActuation ==
    [][/\ (teleop_locked /\ ~teleop_locked') => last_sent_coords' = None
       /\ (last_sent_coords = None /\ last_sent_coords' # None) =>
              Len(servo_sent') = Len(servo_sent) + 1]_vars

\* an actuation has just ended after a command had been dispatched
C12_Witness ==
    /\ ev.kind = "thread"
    /\ ev.why = "unlock"
    /\ ~teleop_locked
    /\ Len(servo_sent) > 0
    /\ last_sent_coords = None

\* C13: every accepted trigger is eventually followed by teleop_locked being
\* false, whatever the outcome of the actuator call.
C13_ActuationCompletes == teleop_locked ~> ~teleop_locked

C13_Witness ==
    /\ ev.kind = "thread"
    /\ ev.why = "unlock"
    /\ triggers > 0
    /\ thread_pc = "idle"
    /\ ~teleop_locked

\* C14: the EnableRobot request of the recovery is issued with last_sent_coords
\* already None and the lock still held, and the lock is released only with
\* last_sent_coords None and the request of this actuation issued.
C14_RecoveryOrder ==
    [][/\ (WakeIssued' > WakeIssued) =>
              last_sent_coords = None /\ teleop_locked /\ teleop_locked'
       /\ (teleop_locked /\ ~teleop_locked') =>
              last_sent_coords = None /\ WakeIssued = triggers]_vars

C14_Witness ==
    /\ ~teleop_locked
    /\ triggers > 0
    /\ WakeIssued = triggers
    /\ Len(servo_sent) > 0
    /\ thread_pc = "idle"

\* C15: no step of the background thread writes RobotConnectionState,
\* GripperState, SessionBaseline or LastSentTarget.
C15_ThreadWritesNoSharedState ==
    [][ev'.kind = "thread" =>
          UNCHANGED <<robot_enabled, teleop_locked, last_sent_coords,
                      initial_robot_pose, initial_robot_euler,
                      initial_phone_pose, initial_phone_euler>>]_vars

\* C16: a motion command that follows another is dispatched at least
\* CMD_INTERVAL after it; a sample read less than CMD_INTERVAL after the last
\* accepted command dispatches and publishes nothing; and last_cmd_time changes
\* only in a step that dispatches a command.
C16_MinimumCommandInterval ==
    [][/\ (Len(servo_sent') > Len(servo_sent) /\ Len(servo_sent) > 0) =>
              last_cmd_time' - last_cmd_time >= CMD_INTERVAL
       /\ (ev'.kind = "ar_pose" /\ ev'.at # NoTime
             /\ ev'.at - last_cmd_time < CMD_INTERVAL) =>
              servo_sent' = servo_sent /\ published' = published
       /\ (last_cmd_time' # last_cmd_time) =>
              Len(servo_sent') = Len(servo_sent) + 1]_vars

\* two commands have been dispatched
C16_Witness ==
    /\ Len(servo_sent) = 2
    /\ ev.kind = "ar_pose"
    /\ ev.why = "sent"

\* C17: a sensor sample handled while robot_enabled is false, or while
\* teleop_locked holds, or read inside the minimum command interval, changes
\* no attribute and sends nothing to the driver or the recorder.
C17_DroppedSampleChangesNothing ==
    [][(/\ ev'.kind = "ar_pose"
        /\ \/ ~robot_enabled
           \/ teleop_locked
           \/ (ev'.at # NoTime /\ ev'.at - last_cmd_time < CMD_INTERVAL)) =>
          UNCHANGED <<hsvars, gripvars, basevars, motionvars, last_sent_coords,
                      crashed>>]_vars

\* a sample has been dropped by the interval test alone, after a command
C17_Witness ==
    /\ ev.kind = "ar_pose"
    /\ ev.why = "interval"
    /\ EvInsideInterval
    /\ robot_enabled
    /\ ~teleop_locked
    /\ Len(servo_sent) > 0

\* C18: at most one GetPose request is outstanding; while one is, the flag is
\* set and the robot baseline is not recorded; once the robot baseline is
\* recorded none is outstanding and none is issued again.
C18_OneBaselineRequest ==
    /\ pose_pending <= 1
    /\ pose_pending = 1 => getting_initial_pose_flag /\ ~robot_pose_initialized
    /\ robot_pose_initialized => pose_pending = 0 /\ initial_robot_pose # None

\* a sample has been handled with a request outstanding
C18_Witness ==
    /\ ev.kind = "ar_pose"
    /\ ev.why = "init"
    /\ pose_pending = 1
    /\ getting_initial_pose_flag

\* C19: a malformed GetPose response clears getting_initial_pose_flag, leaves
\* the session uninitialized and raises nothing; a sample that passes the
\* three tests with the flag clear and no robot baseline issues a GetPose
\* request; a well-formed response records the robot baseline.
C19_MalformedPoseRetried ==
    [][/\ (ev'.kind = "pose_cb" /\ ev'.why = "malformed") =>
              /\ ~getting_initial_pose_flag'
              /\ ~robot_pose_initialized'
              /\ ~initialized'
              /\ ~crashed'
       /\ (/\ ev'.kind = "ar_pose"
           /\ robot_enabled /\ ~teleop_locked
           /\ ev'.at # NoTime /\ ev'.at - last_cmd_time >= CMD_INTERVAL
           /\ ~robot_pose_initialized /\ ~getting_initial_pose_flag) =>
              pose_pending' = pose_pending + 1 /\ getting_initial_pose_flag'
       /\ (ev'.kind = "pose_cb" /\ ev'.why = "ok") =>
              /\ robot_pose_initialized'
              /\ initial_robot_pose' # None
              /\ initial_robot_euler' # None]_vars

\* a malformed response has been handled
C19_Witness ==
    /\ ev.kind = "pose_cb"
    /\ ev.why = "malformed"
    /\ ~getting_initial_pose_flag
    /\ pose_pending = 0

\* C20: a GetPose response that fails to parse leaves the position and the
\* orientation of the robot baseline as they were.
C20_BaselineNotPartiallyWritten ==
    [][(ev'.kind = "pose_cb" /\ ev'.why = "malformed") =>
          UNCHANGED <<initial_robot_pose, initial_robot_euler>>]_vars

\* the x, y, z of a ServoP request or of a published target
PosOf(cmd) == SubSeq(cmd, 1, 3)

\* the target, after the limits, of the message of the last step
EvTarget == ClampPos(EvCandidate)

\* the last step took a message through the motion path
EvMotion == ev.kind = "ar_pose" /\ ev.why \in {"sent", "rejected"}
EvSent == ev.kind = "ar_pose" /\ ev.why = "sent"

\* C21: while initialized is false no step dispatches a ServoP request or
\* publishes a target; neither does any message handled by handle_init, the one
\* recorded as the phone baseline included; so the first command comes from a
\* message handled after that one.
C21_NoCommandBeforeInitialized ==
    [][/\ (~initialized \/ (ev'.kind = "ar_pose" /\ ev'.why = "init")) =>
              servo_sent' = servo_sent /\ published' = published
       /\ ~initialized' => servo_sent' = <<>> /\ published' = <<>>]_vars

\* the phone baseline has just been recorded
C21_Witness ==
    /\ ev.kind = "ar_pose"
    /\ ev.why = "init"
    /\ initialized
    /\ initial_phone_pose = ev.msg.pos
    /\ servo_sent = <<>>
    /\ published = <<>>

\* C22: a step dispatches a ServoP request exactly when it publishes a target,
\* and only a message past the distance test does: one request with the
\* message's target, one published vector of 7 elements whose first six are the
\* request and whose seventh is current_gripper_val, and last_sent_coords
\* afterwards is the position of that request.
C22_DispatchedAndPublishedOnce ==
    [][/\ (servo_sent' # servo_sent \/ published' # published \/ EvSent') =>
              /\ EvSent'
              /\ servo_sent' = Append(servo_sent, Last(servo_sent'))
              /\ published' = Append(published, Last(published'))
              /\ Len(Last(published')) = 7
              /\ SubSeq(Last(published'), 1, 6) = Last(servo_sent')
              /\ Last(published')[7] = current_gripper_val
              /\ PosOf(Last(servo_sent')) = EvTarget'
              /\ last_sent_coords' = PosOf(Last(servo_sent'))
       /\ Len(published') = Len(servo_sent')]_vars

C22_Witness ==
    /\ EvSent
    /\ Len(servo_sent) = 2
    /\ Len(published) = 2
    /\ last_sent_coords = PosOf(published[2])

\* the distance of the message's target from a position is outside the band
\* from MIN_MOVE_THRESHOLD to MAX_JUMP_THRESHOLD, bounds in the band
OutsideBand(target, from) ==
    \/ DistSq(target, from) > MAX_JUMP_THRESHOLD * MAX_JUMP_THRESHOLD
    \/ DistSq(target, from) < MIN_MOVE_THRESHOLD * MIN_MOVE_THRESHOLD

\* C23: a message rejected by the distance test dispatches and publishes
\* nothing and leaves last_sent_coords and last_cmd_time as they were; both
\* change only when a command is dispatched; and once a command has been
\* dispatched a message is rejected exactly when its target is outside the
\* band around the position of the last command dispatched.
C23_RejectedChangesNothing ==
    [][/\ (ev'.kind = "ar_pose" /\ ev'.why = "rejected") =>
              UNCHANGED <<motionvars, last_sent_coords, basevars, gripvars>>
       /\ (last_sent_coords' # last_sent_coords \/ last_cmd_time' # last_cmd_time) =>
              /\ EvSent'
              /\ Len(servo_sent') = Len(servo_sent) + 1
              /\ last_sent_coords' = PosOf(Last(servo_sent'))
       /\ (EvMotion' /\ servo_sent # <<>>) =>
              (ev'.why = "rejected" <=> OutsideBand(EvTarget', PosOf(Last(servo_sent))))]_vars

\* a message 54 mm from the one command dispatched (itself 5 mm from the
\* target before it) has been rejected
C23_Witness ==
    /\ ev.kind = "ar_pose"
    /\ ev.why = "rejected"
    /\ ev.msg.pos = <<0, 6, 0>>
    /\ initial_robot_pose = CornerBaseline
    /\ Len(servo_sent) = 1
    /\ PosOf(servo_sent[1]) = CornerBaseline
    /\ last_sent_coords = CornerBaseline
    /\ DistSq(EvTarget, last_sent_coords) > MAX_JUMP_THRESHOLD * MAX_JUMP_THRESHOLD

\* C24: a message that reaches the distance test while last_sent_coords is
\* None is dispatched.
C24_AcceptedWhenNoTarget ==
    [][(EvMotion' /\ last_sent_coords = None) =>
          /\ ev'.why = "sent"
          /\ Len(servo_sent') = Len(servo_sent) + 1
          /\ PosOf(Last(servo_sent')) = EvTarget']_vars

\* after an actuation, a target equal to the one dispatched before it has been
\* dispatched again
C24_Witness ==
    /\ EvSent
    /\ triggers > 0
    /\ Len(servo_sent) = 2
    /\ PosOf(servo_sent[1]) = PosOf(servo_sent[2])

\* C25: with last_sent_coords set, a message is rejected if and only if
\* dist > MAX_JUMP_THRESHOLD or dist < MIN_MOVE_THRESHOLD, and dispatched
\* otherwise.
C25_RejectedIffOutsideBand ==
    [][(EvMotion' /\ last_sent_coords # None) =>
          /\ ev'.why = "rejected" <=> OutsideBand(EvTarget', last_sent_coords)
          /\ ev'.why = "sent" <=> ~OutsideBand(EvTarget', last_sent_coords)]_vars

\* targets exactly 40 mm and exactly 2 mm from the one before have been
\* dispatched
C25_Witness ==
    /\ EvSent
    /\ Len(servo_sent) = 3
    /\ DistSq(PosOf(servo_sent[1]), PosOf(servo_sent[2])) =
           MAX_JUMP_THRESHOLD * MAX_JUMP_THRESHOLD
    /\ DistSq(PosOf(servo_sent[2]), PosOf(servo_sent[3])) =
           MIN_MOVE_THRESHOLD * MIN_MOVE_THRESHOLD

\* C26, as stated: with last_sent_coords set, a message is dispatched exactly
\* when MIN_MOVE_THRESHOLD < dist < MAX_JUMP_THRESHOLD, so one at either
\* threshold is rejected.
C26_BoundaryRejected ==
    [][(EvMotion' /\ last_sent_coords # None) =>
          (ev'.why = "sent" <=>
              /\ DistSq(EvTarget', last_sent_coords) >
                     MIN_MOVE_THRESHOLD * MIN_MOVE_THRESHOLD
              /\ DistSq(EvTarget', last_sent_coords) <
                     MAX_JUMP_THRESHOLD * MAX_JUMP_THRESHOLD)]_vars

\* C26, amended: with last_sent_coords set, a message with
\* MIN_MOVE_THRESHOLD <= dist <= MAX_JUMP_THRESHOLD is dispatched, one at
\* either threshold included, and one with dist < MIN_MOVE_THRESHOLD or
\* dist > MAX_JUMP_THRESHOLD dispatches nothing.
C26_BoundaryAccepted ==
    [][(EvMotion' /\ last_sent_coords # None) =>
          LET d2 == DistSq(EvTarget', last_sent_coords)
              lo == MIN_MOVE_THRESHOLD * MIN_MOVE_THRESHOLD
              hi == MAX_JUMP_THRESHOLD * MAX_JUMP_THRESHOLD
          IN  /\ (lo <= d2 /\ d2 <= hi) => Len(servo_sent') = Len(servo_sent) + 1
              /\ (d2 < lo \/ d2 > hi) => servo_sent' = servo_sent
              /\ (d2 = lo \/ d2 = hi) => ev'.why = "sent"]_vars

\* a target exactly 2 mm from the one before has been dispatched
C26_Witness ==
    /\ EvSent
    /\ Len(servo_sent) = 2
    /\ DistSq(PosOf(servo_sent[1]), last_sent_coords) =
           MIN_MOVE_THRESHOLD * MIN_MOVE_THRESHOLD

\* C27: the position dispatched is the clamp of
\* <<x0 - scale * (pz - pz0), y0 - scale * (px - px0), z0 + scale * (py - py0)>>
\* for robot baseline <<x0, y0, z0>>, phone baseline <<px0, py0, pz0>> and
\* message position <<px, py, pz>>, with the one gain PositionScale: a function
\* of the message and the baselines alone.
C27_PositionMapping ==
    [][EvSent' =>
          LET pos == ev'.msg.pos
              cx == initial_robot_pose[1]
                        - PositionScale * (pos[3] - initial_phone_pose[3])
              cy == initial_robot_pose[2]
                        - PositionScale * (pos[1] - initial_phone_pose[1])
              cz == initial_robot_pose[3]
                        + PositionScale * (pos[2] - initial_phone_pose[2])
          IN  /\ PosOf(Last(servo_sent')) =
                     <<Clamp(cx, XMin, XMax), Clamp(cy, YMin, YMax), Clamp(cz, ZMin, ZMax)>>
              /\ InEnvelope(<<cx, cy, cz>>) => PosOf(Last(servo_sent')) = <<cx, cy, cz>>]_vars

\* a command has been dispatched for a message whose three deltas differ, with
\* no limit applied
C27_Witness ==
    /\ EvSent
    /\ ev.msg.pos[1] - initial_phone_pose[1] = 1
    /\ ev.msg.pos[2] - initial_phone_pose[2] = -1
    /\ ev.msg.pos[3] - initial_phone_pose[3] = 0
    /\ InEnvelope(EvCandidate)
    /\ PosOf(Last(servo_sent)) = EvCandidate

\* C28: the angles dispatched are the robot baseline angles plus RotationScale
\* times the phone's Euler deltas permuted as the position is: robot x takes
\* the delta about the phone's z axis, robot y the delta about x, robot z the
\* delta about y.
C28_RotationPermutedAsPosition ==
    [][EvSent' =>
          SubSeq(Last(servo_sent'), 4, 6) =
              <<initial_robot_euler[1]
                    + (ev'.msg.eul[3] - initial_phone_euler[3]) * RotationScale,
                initial_robot_euler[2]
                    + (ev'.msg.eul[1] - initial_phone_euler[1]) * RotationScale,
                initial_robot_euler[3]
                    + (ev'.msg.eul[2] - initial_phone_euler[2]) * RotationScale>>]_vars

\* the message one hundredth along the phone's z axis, handled with the robot
\* baseline <<100, 0, 300>> and the phone baseline at the origin
ScenarioStep ==
    /\ EvSent
    /\ initial_robot_pose = OutsideBaseline
    /\ initial_phone_pose = <<0, 0, 0>>
    /\ ev.msg.pos = <<0, 0, 1>>

\* C29, as stated: the target of that message has z 9 mm above the baseline z
\* and the baseline's x and y.
C29_ScenarioRaisesZ ==
    [][ScenarioStep' =>
          PosOf(Last(servo_sent')) =
              <<OutsideBaseline[1], OutsideBaseline[2], OutsideBaseline[3] + 9>>]_vars

\* C29, amended: the candidate of that message has x 9 mm below the baseline x
\* and the baseline's y and z, and the target dispatched is that candidate with
\* x clamped to XMax.
C29_ScenarioLowersX ==
    [][ScenarioStep' =>
          /\ EvCandidate' =
                 <<OutsideBaseline[1] - 9, OutsideBaseline[2], OutsideBaseline[3]>>
          /\ PosOf(Last(servo_sent')) = <<XMax, OutsideBaseline[2], OutsideBaseline[3]>>
          /\ PosOf(Last(published')) = PosOf(Last(servo_sent'))]_vars

C29_Witness ==
    /\ ScenarioStep
    /\ Len(servo_sent) = 1

\* C30: the step that accepts a trigger sets current_gripper_val to the value
\* commanded, together with the lock and before the thread has run;
\* current_gripper_val changes in no other step and is GripperOpen until a
\* trigger is accepted; a published target carries current_gripper_val as its
\* seventh element, and its pose is the target of the message and the request
\* dispatched whatever that value is.
C30_GripperValueFollowsTrigger ==
    [][/\ (triggers' = triggers + 1) =>
              /\ ev'.kind = "volume"
              /\ ~teleop_locked /\ teleop_locked'
              /\ thread_pc' = "pre_sleep"
              /\ current_gripper_val' =
                     IF ev'.why = "close" THEN GripperClosed ELSE GripperOpen
       /\ (current_gripper_val' # current_gripper_val) => triggers' = triggers + 1
       /\ (triggers' = 0) => current_gripper_val' = GripperOpen
       /\ (Len(published') > Len(published)) =>
              /\ Last(published')[7] = current_gripper_val'
              /\ current_gripper_val' = current_gripper_val
              /\ PosOf(Last(published')) = EvTarget'
              /\ SubSeq(Last(published'), 1, 6) = Last(servo_sent')]_vars

\* a target published before a close trigger carries GripperOpen, one
\* published after it GripperClosed
C30_Witness ==
    /\ EvSent
    /\ triggers = 1
    /\ Len(published) = 2
    /\ published[1][7] = GripperOpen
    /\ published[2][7] = GripperClosed

\* C31: with teleop_locked false, a message of /bros/volume with at least two
\* elements of which the first two are 1, 0 starts a close actuation, one of
\* which the first two are 0, 1 starts an open actuation, and every other
\* message starts nothing and changes nothing.
C31_PatternSelectsAction ==
    [][(ev'.kind = "volume" /\ ~teleop_locked) =>
          LET data == ev'.msg
              Starts(action, value) ==
                  /\ triggers' = triggers + 1
                  /\ teleop_locked'
                  /\ thread_pc' = "pre_sleep"
                  /\ thread_action' = action
                  /\ current_gripper_val' = value
          IN  IF Len(data) >= 2 /\ data[1] = 1 /\ data[2] = 0
                 THEN Starts("close", GripperClosed)
              ELSE IF Len(data) >= 2 /\ data[1] = 0 /\ data[2] = 1
                 THEN Starts("open", GripperOpen)
              ELSE UNCHANGED <<hsvars, gripvars, basevars, motionvars,
                               last_sent_coords, crashed>>]_vars

\* the message 1, 0 has started a close actuation
C31_Witness ==
    /\ ev.kind = "volume"
    /\ ev.msg = <<1, 0>>
    /\ triggers = 1
    /\ thread_pc = "pre_sleep"
    /\ thread_action = "close"
    /\ current_gripper_val = GripperClosed

C36_ScaleFollowsLevels ==
    [][/\ current_scale_idx' \in 0..(Len(ScaleLevels) - 1)
       /\ scale_pos' = ScaleLevels[current_scale_idx' + 1]
       /\ (ev'.kind = "ik_response" /\ ev'.why = "ik_failed"
             => current_scale_idx' = IF current_scale_idx = Len(ScaleLevels) - 1
                                        THEN current_scale_idx
                                        ELSE current_scale_idx + 1)
       /\ (current_scale_idx' < current_scale_idx
             => current_scale_idx' = 0 /\ goals_sent' = goals_sent + 1)]_vars


\* C37: over the calls made on one task file, two calls return the same index
\* exactly when they were given the same description.
C37_MappingStableInjective ==
    \A i, j \in DOMAIN task_calls :
        (task_calls[i].task = task_calls[j].task)
            <=> (task_calls[i].idx = task_calls[j].idx)

====
